---- MODULE Spec2Model ----
(***************************************************************************)
(* Longitudinal vehicle model of Course1FinalProject                       *)
(* (Longitudinal_Vehicle_Model.ipynb): class Vehicle with __init__, reset  *)
(* and step, and the notebook's driver cells that own the global           *)
(* sample_time and call step in a loop.                                    *)
(*                                                                         *)
(* Numbers.  The notebook computes with Python ints, Python floats and     *)
(* numpy float64 scalars.  A number is modelled as a decimal fixed-point   *)
(* value: the integer n stands for n / SCALE.  Every arithmetic result is  *)
(* rounded to the nearest representable value (half away from zero), a     *)
(* result whose magnitude exceeds MaxFloat overflows to an infinity, and   *)
(* the float64 values inf, -inf and nan are the integers PosInf, NegInf    *)
(* and NaN, which lie outside the finite range.                            *)
(***************************************************************************)
EXTENDS Integers, Sequences, FiniteSets, TLC

(***************************************************************************)
(* Floating-point arithmetic                                               *)
(***************************************************************************)
SCALE == 10000

MaxReal == 50000

MaxFloat == MaxReal * SCALE

PosInf == 2 * MaxFloat

NegInf == -PosInf

NaN == PosInf + 1

\* The value of an attribute that has not been assigned yet.
Unset == NaN + 1

\* An operator's argument is an expression that is evaluated anew at every
\* use; Strict1 and Strict2 evaluate the arguments once and apply F to the
\* values.
Strict1(F(_), u) == CHOOSE r \in {F(x) : x \in {u}} : TRUE

Strict2(F(_, _), u, v) == CHOOSE r \in {F(x, y) : x \in {u}, y \in {v}} : TRUE

IsFinite(n) == n >= -MaxFloat /\ n <= MaxFloat

IsNumber(n) == IsFinite(n) \/ n = PosInf \/ n = NegInf \/ n = NaN

Sign(n) == IF n = NaN THEN 0 ELSE IF n > 0 THEN 1 ELSE IF n < 0 THEN -1 ELSE 0

Abs(n) == IF n < 0 THEN -n ELSE n

Signed(sgn, mag) == IF mag = PosInf
                    THEN (IF sgn < 0 THEN NegInf ELSE PosInf)
                    ELSE sgn * mag

Overflow(n) == IF n > MaxFloat THEN PosInf ELSE IF n < -MaxFloat THEN NegInf ELSE n

NegValue(a) == IF a = NaN THEN NaN
          ELSE IF a = PosInf THEN NegInf
          ELSE IF a = NegInf THEN PosInf
          ELSE -a

Neg(a) == Strict1(NegValue, a)

AddValues(a, b) == IF a = NaN \/ b = NaN THEN NaN
             ELSE IF ~IsFinite(a) THEN (IF ~IsFinite(b) /\ a # b THEN NaN ELSE a)
             ELSE IF ~IsFinite(b) THEN b
             ELSE Overflow(a + b)

Add(a, b) == Strict2(AddValues, a, b)

Sub(a, b) == Add(a, Neg(b))

\* a * b on finite magnitudes, computed piecewise so that no intermediate
\* value leaves the 32-bit range.
MulMag(a, b) ==
    LET a1 == a \div SCALE
        a0 == a % SCALE
        b1 == b \div SCALE
        b0 == b % SCALE
    IN  IF a1 > 0 /\ b1 > MaxReal \div a1
        THEN PosInf
        ELSE LET p == a1 * b1 * SCALE + a1 * b0 + a0 * b1
                      + (2 * a0 * b0 + SCALE) \div (2 * SCALE)
             IN  IF p > MaxFloat THEN PosInf ELSE p

MulValues(a, b) == IF a = NaN \/ b = NaN THEN NaN
             ELSE IF ~IsFinite(a) \/ ~IsFinite(b)
                  THEN (IF a = 0 \/ b = 0 THEN NaN
                        ELSE Signed(Sign(a) * Sign(b), PosInf))
             ELSE Signed(Sign(a) * Sign(b), MulMag(Abs(a), Abs(b)))

Mul(a, b) == Strict2(MulValues, a, b)

\* The digits of r / b after the decimal point, r < b, one decimal digit at
\* a time, rounded on the digit after the last.
RECURSIVE FracDigits(_, _, _)
FracDigits(r, b, unit) ==
    IF unit = 0
    THEN (IF 2 * r >= b THEN 1 ELSE 0)
    ELSE ((10 * r) \div b) * unit + FracDigits((10 * r) % b, b, unit \div 10)

DivMag(a, b) ==
    LET q == a \div b
    IN  IF q > MaxReal
        THEN PosInf
        ELSE LET p == q * SCALE + FracDigits(a % b, b, SCALE \div 10)
             IN  IF p > MaxFloat THEN PosInf ELSE p

\* a / b for a float64 operand: a zero divisor gives inf, -inf or nan.
DivValues(a, b) == IF a = NaN \/ b = NaN THEN NaN
             ELSE IF b = 0
                  THEN (IF a = 0 THEN NaN ELSE Signed(Sign(a), PosInf))
             ELSE IF ~IsFinite(a)
                  THEN (IF ~IsFinite(b) THEN NaN
                        ELSE Signed(Sign(a) * Sign(b), PosInf))
             ELSE IF ~IsFinite(b) THEN 0
             ELSE Signed(Sign(a) * Sign(b), DivMag(Abs(a), Abs(b)))

Div(a, b) == Strict2(DivValues, a, b)

\* abs(a) < b; every comparison with nan is False.
AbsLessValues(a, b) == a # NaN /\ b # NaN /\ IsFinite(a) /\ Abs(a) < b

AbsLess(a, b) == Strict2(AbsLessValues, a, b)

(***************************************************************************)
(* np.sin: the sine of an angle in radians, by its Taylor series           *)
(* x - x^3/3! + x^5/5! - x^7/7! + x^9/9! after folding the angle into      *)
(* [-pi/2, pi/2].                                                          *)
(***************************************************************************)
Pi == 31416

\* n / k rounded to the nearest integer, k a positive integer.
RoundDiv(n, k) == IF n >= 0 THEN (2 * n + k) \div (2 * k)
                  ELSE -((2 * (-n) + k) \div (2 * k))

FoldAngle(x) ==
    LET y == ((x + Pi) % (2 * Pi)) - Pi
    IN  IF 2 * y > Pi THEN Pi - y
        ELSE IF 2 * y < -Pi THEN -Pi - y
        ELSE y

\* The series from the term of degree k on, given that term.
RECURSIVE SinSeries(_, _, _)
SinSeries(term, xx, k) ==
    IF k > 9 THEN 0
    ELSE Strict2(LAMBDA t, q :
                     t + SinSeries(RoundDiv(-Mul(t, q), (k + 1) * (k + 2)), q, k + 2),
                 term, xx)

SinValue(alpha) ==
    IF ~IsFinite(alpha) THEN NaN
    ELSE LET x == FoldAngle(alpha)
             series == SinSeries(x, Mul(x, x), 1)
         IN  IF series > SCALE THEN SCALE
             ELSE IF series < -SCALE THEN -SCALE
             ELSE series

Sin(alpha) == Strict1(SinValue, alpha)

(***************************************************************************)
(* class Vehicle                                                           *)
(***************************************************************************)
\* The decimal literal num/den of the source, den a power of ten up to SCALE:
\* 9.81 is Dec(981, 100) and -0.0002 is Dec(-2, 10000).
Dec(num, den) == num * (SCALE \div den)

Params == {"a_0", "a_1", "a_2", "GR", "r_e", "J_e", "m", "g",
           "c_a", "c_r1", "c", "F_max", "sample_time"}

StateFields == {"x", "v", "a", "w_e", "w_e_dot"}

\* The attributes that step creates on the object besides the state fields.
StepAttrs == {"Te", "Fload", "w_w", "s", "Fx"}

\* Vehicle.__init__.  np is the set of state fields that hold a numpy
\* float64 scalar rather than a Python int or float.
NewVehicle ==
    [a_0 |-> Dec(400, 1), a_1 |-> Dec(1, 10), a_2 |-> Dec(-2, 10000),
     GR |-> Dec(35, 100), r_e |-> Dec(3, 10), J_e |-> Dec(10, 1),
     m |-> Dec(2000, 1), g |-> Dec(981, 100),
     c_a |-> Dec(136, 100), c_r1 |-> Dec(1, 100),
     c |-> Dec(10000, 1), F_max |-> Dec(10000, 1),
     x |-> 0, v |-> Dec(5, 1), a |-> 0, w_e |-> Dec(100, 1), w_e_dot |-> 0,
     sample_time |-> Dec(1, 100),
     Te |-> Unset, Fload |-> Unset, w_w |-> Unset, s |-> Unset, Fx |-> Unset,
     np |-> {}]

\* reset without the assignment to self.w_e_dot.
ResetObjKeepEngineAccel(o) ==
    [o EXCEPT !.x = 0, !.v = Dec(5, 1), !.a = 0, !.w_e = Dec(100, 1),
              !.np = @ \cap {"w_e_dot"}]

\* reset assigning 0 to self.a_0 where it assigns to self.a.
ResetObjTorqueCoefficient(o) ==
    [o EXCEPT !.x = 0, !.v = Dec(5, 1), !.a_0 = 0, !.w_e = Dec(100, 1),
              !.w_e_dot = 0, !.np = @ \cap {"a"}]

\* Vehicle.reset
ResetObj(o) ==
    [o EXCEPT !.x = 0, !.v = Dec(5, 1), !.a = 0, !.w_e = Dec(100, 1),
              !.w_e_dot = 0, !.np = {}]

(***************************************************************************)
(* Vehicle.step(throttle, alpha), statement by statement.  dt is the value *)
(* the name sample_time evaluates to in the body of step.                  *)
(***************************************************************************)
\* Integrate with self.v assigned before self.x is, so that the position
\* reads the velocity of after.
IntegrateVelocityFirst(o, dt) ==
    [o EXCEPT !.x = Add(o.x, Mul(Add(o.v, Mul(o.a, dt)), dt)),
              !.v = Add(o.v, Mul(o.a, dt)),
              !.w_e = Add(o.w_e, Mul(o.w_e_dot, dt)),
              !.np = o.np
                     \cup (IF "v" \in o.np \/ "a" \in o.np THEN {"x"} ELSE {})
                     \cup (IF "a" \in o.np THEN {"v"} ELSE {})
                     \cup (IF "w_e_dot" \in o.np THEN {"w_e"} ELSE {})]

\* self.x = self.x + self.v * sample_time, then self.v, then self.w_e.
\* Each right-hand side reads the derivative stored by the previous call;
\* self.x is assigned before self.v, so it reads the velocity of before.
Integrate(o, dt) ==
    [o EXCEPT !.x = Add(o.x, Mul(o.v, dt)),
              !.v = Add(o.v, Mul(o.a, dt)),
              !.w_e = Add(o.w_e, Mul(o.w_e_dot, dt)),
              !.np = o.np
                     \cup (IF "v" \in o.np THEN {"x"} ELSE {})
                     \cup (IF "a" \in o.np THEN {"v"} ELSE {})
                     \cup (IF "w_e_dot" \in o.np THEN {"w_e"} ELSE {})]

\* The engine torque with the throttle clamped to [0, 1].
EngineTorqueClamped(o, throttle) ==
    Mul(IF throttle < 0 THEN 0 ELSE IF throttle > Dec(1, 1) THEN Dec(1, 1)
        ELSE throttle,
        Add(Add(o.a_0, Mul(o.a_1, o.w_e)), Mul(Mul(o.a_2, o.w_e), o.w_e)))

\* self.Te = throttle * (self.a_0 + self.a_1 * self.w_e + self.a_2 * self.w_e * self.w_e)
EngineTorque(o, throttle) ==
    Mul(throttle,
        Add(Add(o.a_0, Mul(o.a_1, o.w_e)), Mul(Mul(o.a_2, o.w_e), o.w_e)))

\* The load force with a drag that is linear in the velocity.
LoadForceLinearDrag(o, alpha) ==
    Add(Add(Mul(o.c_a, o.v), Mul(o.c_r1, o.v)),
        Mul(Mul(o.m, o.g), Sin(alpha)))

\* self.Fload = self.c_a * self.v * self.v + self.c_r1 * self.v + self.m * self.g * np.sin(alpha)
LoadForce(o, alpha) ==
    Add(Add(Mul(Mul(o.c_a, o.v), o.v), Mul(o.c_r1, o.v)),
        Mul(Mul(o.m, o.g), Sin(alpha)))

\* self.w_e_dot = (self.Te - self.GR*(self.r_e * self.Fload)) / self.J_e
EngineAccel(o) ==
    Div(Sub(o.Te, Mul(o.GR, Mul(o.r_e, o.Fload))), o.J_e)

\* self.w_w = self.GR * self.w_e
WheelSpeed(o) == Mul(o.GR, o.w_e)

\* The slip ratio divided as Python floats whatever the operands are.
SlipIsPythonFloat(o) == FALSE

\* Whether the division of the slip ratio is numpy's: one operand at least
\* is a float64 scalar.  The product self.w_w * self.r_e is one when self.w_e is.
SlipIsFloat64(o) == "v" \in o.np \/ "w_e" \in o.np

\* Python's own float division raises ZeroDivisionError on a zero divisor;
\* numpy's warns and returns inf, -inf or nan.
SlipRaises(o) == o.v = 0 /\ ~SlipIsFloat64(o)

\* self.s = ((self.w_w * self.r_e) - self.v)/self.v
SlipRatio(o) == Div(Sub(Mul(o.w_w, o.r_e), o.v), o.v)

\* The tire force with the linear region closed at abs(s) = 1.
TireForceInclusive(o) ==
    IF o.s # NaN /\ IsFinite(o.s) /\ Abs(o.s) <= Dec(1, 1)
    THEN Mul(o.c, o.s) ELSE o.F_max

\* The tire force saturating with the sign of the slip ratio.
TireForceSigned(o) ==
    IF AbsLess(o.s, Dec(1, 1)) THEN Mul(o.c, o.s)
    ELSE IF o.s = NaN THEN o.F_max
    ELSE Mul(Signed(Sign(o.s), Dec(1, 1)), o.F_max)

\* if abs(self.s) < 1: self.Fx = self.c * self.s  else: self.Fx = self.F_max
TireForce(o) == IF AbsLess(o.s, Dec(1, 1)) THEN Mul(o.c, o.s) ELSE o.F_max

\* The acceleration with the two forces exchanged.
AccelerationOpposed(o) == Div(Sub(o.Fload, o.Fx), o.m)

\* self.a = (self.Fx - self.Fload)/self.m
Acceleration(o) == Div(Sub(o.Fx, o.Fload), o.m)

\* step with the engine torque computed once and kept in self.Te from then
\* on, across reset.
AssignTorqueLoadCached(o, throttle, alpha) ==
    [o EXCEPT !.Te = IF @ = Unset THEN EngineTorque(o, throttle) ELSE @,
              !.Fload = LoadForce(o, alpha)]

\* The assignments of step after the integration, in the order of the source.
\* Fload is a float64 scalar because np.sin returns one, and so is everything
\* computed from it.
AssignTorqueLoad(o, throttle, alpha) ==
    [o EXCEPT !.Te = EngineTorque(o, throttle), !.Fload = LoadForce(o, alpha)]

AssignEngineAccel(o) ==
    [o EXCEPT !.w_e_dot = EngineAccel(o), !.w_w = WheelSpeed(o),
              !.np = @ \cup {"w_e_dot"}]

AssignSlip(o) == [o EXCEPT !.s = SlipRatio(o)]

AssignTireForce(o) == [o EXCEPT !.Fx = TireForce(o)]

AssignAcceleration(o) == [o EXCEPT !.a = Acceleration(o), !.np = @ \cup {"a"}]

\* step up to self.w_w = ..., the last statement before the slip ratio.
StepToWheelSpeed(o, throttle, alpha, dt) ==
    Strict1(AssignEngineAccel,
            Strict1(LAMBDA o1 : AssignTorqueLoad(o1, throttle, alpha),
                    Integrate(o, dt)))

\* step from the slip ratio to its end.
StepFromSlip(o) ==
    Strict1(AssignAcceleration, Strict1(AssignTireForce, AssignSlip(o)))

\* How the call ends: with ZeroDivisionError at the slip ratio, leaving the
\* assignments made so far, or by returning.
StepOutcome(o) ==
    IF SlipRaises(o)
    THEN [obj |-> o, err |-> "ZeroDivisionError",
          assigned |-> {"x", "v", "w_e", "Te", "Fload", "w_e_dot", "w_w"}]
    ELSE [obj |-> StepFromSlip(o), err |-> "none",
          assigned |-> StateFields \cup StepAttrs]

\* The whole call: the object it leaves, the exception it ends in ("none"
\* when it returns) and the attributes it assigned.
StepObj(o, throttle, alpha, dt) ==
    Strict1(StepOutcome, StepToWheelSpeed(o, throttle, alpha, dt))

(***************************************************************************)
(* The ramp cell's inputs: the incline alpha(x) and the throttle array.    *)
(***************************************************************************)
\* np.arctan(3/60) and np.arctan(9/90), the angles of the two ramps.
RampAngle1 == 500

RampAngle2 == 997

\* 60/np.cos(np.arctan(3/60)), where the first ramp ends, and
\* 90/np.cos(np.arctan(9/90)), the length of the second ramp.
RampEnd1 == 600750

RampLength2 == 904489

RampEnd2 == Add(RampEnd1, RampLength2)

\* alpha(x) with the loop's commented-out a_i = 0 in force: the flat road.
AlphaAssignFlat(x, g) == 0

\* alpha(x) with each breakpoint given to the segment after it.
AlphaAssignOpenBreaks(x, g) ==
    IF x = NaN THEN g
    ELSE IF x < RampEnd1 /\ x >= 0 THEN RampAngle1
    ELSE IF x >= RampEnd1 /\ x < RampEnd2 THEN RampAngle2
    ELSE IF x >= RampEnd2 THEN 0
    ELSE g

\* The value of the global alpha_a when alpha(x) reaches its return, g being
\* its value at the call: no branch assigns it when x < 0 or x is nan.
AlphaAssign(x, g) ==
    IF x = NaN THEN g
    ELSE IF x <= RampEnd1 /\ x >= 0 THEN RampAngle1
    ELSE IF x > RampEnd1 /\ x <= RampEnd2 THEN RampAngle2
    ELSE IF x > RampEnd2 THEN 0
    ELSE g

\* alpha(x): return alpha_a raises NameError while the name is unbound.
AlphaOutcome(x, g) ==
    [alpha_a |-> AlphaAssign(x, g),
     ret |-> AlphaAssign(x, g),
     err |-> IF AlphaAssign(x, g) = Unset THEN "NameError" ELSE "none"]

\* The float of the integer i.
Float(i) == i * SCALE

\* The throttle array with its last branch written 0.5 - (0.5/5) * t.
ThrottleProfileFromHalf(i, dt) ==
    IF Mul(Float(i), dt) <= Dec(5, 1)
    THEN Add(Dec(2, 10), Mul(Mul(Div(Dec(3, 10), Dec(5, 1)), Float(i)), dt))
    ELSE IF Mul(Float(i), dt) <= Dec(15, 1) THEN Dec(5, 10)
    ELSE IF Mul(Float(i), dt) <= Dec(20, 1)
    THEN Sub(Dec(5, 10), Mul(Mul(Div(Dec(5, 10), Dec(5, 1)), Float(i)), dt))
    ELSE 0

\* x_throttle_data[i], with t_data[i] = i * sample_time: 0.2 at i = 0, then
\* by the branch of t_data[i]; entries no branch assigns stay 0.
ThrottleProfile(i, dt) ==
    IF Mul(Float(i), dt) <= Dec(5, 1)
    THEN Add(Dec(2, 10), Mul(Mul(Div(Dec(3, 10), Dec(5, 1)), Float(i)), dt))
    ELSE IF Mul(Float(i), dt) <= Dec(15, 1) THEN Dec(5, 10)
    ELSE IF Mul(Float(i), dt) <= Dec(20, 1)
    THEN Sub(Dec(2, 1), Mul(Mul(Div(Dec(5, 10), Dec(5, 1)), Float(i)), dt))
    ELSE 0

(***************************************************************************)
(* The notebook: the global sample_time, the Vehicle objects, and the      *)
(* driver cells that reset a model and call step in a loop.                *)
(***************************************************************************)
VARIABLES
    veh,          \* the Vehicle objects, by instance
    sample_time,  \* the notebook's global variable sample_time
    cell,         \* the driver cell that ran last: "const", "ramp" or "test"
    loop,         \* per instance, the driver loop: steps done, throttle, alpha
    last,         \* per instance, the last call: op, err, assigned, dt
    used,         \* per instance, the time increments its step calls integrated with
    hist,         \* per instance, the inputs of its step calls since it was (re)initialised
    alpha_a,      \* the notebook's global alpha_a, which alpha(x) assigns and returns
    a_i           \* the last call of alpha(x): its argument, its result, how it ended

vars == <<veh, sample_time, cell, loop, last, used, hist, alpha_a, a_i>>

\* Longest driver loop, and the number of leading iterations in which the
\* loop may change its inputs; later iterations repeat the inputs.
MaxSteps == 76

MaxFree == 1

\* Longest input sequence of the two-instance specifications.
MaxPairSteps == 2

\* sample_time = 0.01 in the constant-throttle cell and in the test cell.
ConstCellSampleTime == Dec(1, 100)

\* The test cell binding another increment than the first driver cell.
TestCellOtherSampleTime == Dec(2, 100)

TestCellSampleTime == Dec(1, 100)

\* Inputs of the drivers: the reference throttle 0.2, the test cell's 0,
\* and throttles outside [0, 1]; the flat road, the first ramp angle and a
\* steep climb.
Throttles == {0, Dec(2, 10), Dec(15, 10), Dec(-8217, 100)}

Alphas == {0, Dec(5, 100), Dec(1497, 1000)}

PairThrottles == {Dec(2, 10), Dec(-8217, 100)}

PairAlphas == {0, Dec(1497, 1000)}

\* The constant throttles of the runs of the constant-throttle cell, the
\* cell's own 0.2 among them, and the length of its loop (time_end = 100).
RunThrottles == {0, Dec(5, 100), Dec(2, 10), Dec(5, 10), Dec(1, 1)}

MaxRunSteps == 10000

\* The iteration from which a run counts as settled, and the acceleration
\* below which the velocity counts as steady: 0.01 m/s^2, a change of 0.1 m/s
\* in the 10 s that are left.
SettleSteps == 9000

SteadyAccel == Dec(1, 100)

\* Longest input sequence, and the inputs, of the runs compared for the
\* delay with which inputs act.
MaxDelaySteps == 3

DelayInputs == {<<Dec(2, 10), 0>>, <<Dec(-8217, 100), Dec(1497, 1000)>>}

\* The length of the ramp cell's loop (time_end = 20).
MaxRampSteps == 2000

\* Positions alpha(x) is called with: every 2 m from -20 m to 180 m, and
\* the two breakpoints with the next position above each.
AlphaPositions ==
    {k * Dec(2, 1) : k \in -10..90}
        \cup {RampEnd1, RampEnd1 + 1, RampEnd2, RampEnd2 + 1, -1}

\* Values another caller gives the global sample_time.
ExtSampleTimes == {Dec(1, 100), Dec(2, 100)}

NoCall(op) == [op |-> op, err |-> "none", assigned |-> {}, dt |-> Unset]

LoopStart(throttle, alpha) == [i |-> 0, throttle |-> throttle, alpha |-> alpha]

\* alpha(x) has not been called; the name alpha_a is not bound.
NoAlphaCall == [x |-> Unset, ret |-> Unset, err |-> "none"]

InitFor(insts) ==
    /\ veh = [r \in insts |-> NewVehicle]
    /\ sample_time = ConstCellSampleTime
    /\ cell = "const"
    /\ loop = [r \in insts |-> LoopStart(Dec(2, 10), 0)]
    /\ last = [r \in insts |-> NoCall("init")]
    /\ used = [r \in insts |-> {}]
    /\ hist = [r \in insts |-> <<>>]
    /\ alpha_a = Unset
    /\ a_i = NoAlphaCall

\* model.step(throttle, alpha) with the state held by the class, so that a
\* call on one model writes the attributes of every model.
StepCallShared(r, throttle, alpha) ==
    \E res \in {StepObj(veh[r], throttle, alpha, sample_time)} :
        /\ veh' = [q \in DOMAIN veh |-> res.obj]
        /\ last' = [last EXCEPT ![r] = [op |-> "step", err |-> res.err,
                                        assigned |-> res.assigned,
                                        dt |-> sample_time]]
        /\ used' = [used EXCEPT ![r] = @ \cup {sample_time}]
        /\ loop' = [loop EXCEPT ![r] = [i |-> @.i + 1, throttle |-> throttle,
                                        alpha |-> alpha]]
        /\ UNCHANGED <<sample_time, cell>>

\* model.step(throttle, alpha): the body reads the global sample_time.
StepCall(r, throttle, alpha) ==
    \E res \in {StepObj(veh[r], throttle, alpha, sample_time)} :
        /\ veh' = [veh EXCEPT ![r] = res.obj]
        /\ last' = [last EXCEPT ![r] = [op |-> "step", err |-> res.err,
                                        assigned |-> res.assigned,
                                        dt |-> sample_time]]
        /\ used' = [used EXCEPT ![r] = @ \cup {sample_time}]
        /\ loop' = [loop EXCEPT ![r] = [i |-> @.i + 1, throttle |-> throttle,
                                        alpha |-> alpha]]
        /\ UNCHANGED <<sample_time, cell>>

\* One iteration of a driver loop.
Step(r, throttle, alpha) ==
    /\ loop[r].i < MaxSteps
    /\ loop[r].i < MaxFree \/ (throttle = loop[r].throttle /\ alpha = loop[r].alpha)
    /\ StepCall(r, throttle, alpha)
    /\ UNCHANGED <<hist, alpha_a, a_i>>

\* model.reset() and the bookkeeping of the driver that called it.
ResetCall(r, throttle, alpha) ==
    /\ veh' = [veh EXCEPT ![r] = ResetObj(@)]
    /\ last' = [last EXCEPT ![r] = [NoCall("reset") EXCEPT !.assigned = StateFields]]
    /\ loop' = [loop EXCEPT ![r] = LoopStart(throttle, alpha)]
    /\ hist' = [hist EXCEPT ![r] = <<>>]
    /\ UNCHANGED used

\* The constant-throttle cell up to its loop: sample_time = 0.01,
\* model = Vehicle(), throttle = 0.2, alpha = 0.
ConstCell(r) ==
    /\ sample_time' = ConstCellSampleTime
    /\ veh' = [veh EXCEPT ![r] = NewVehicle]
    /\ last' = [last EXCEPT ![r] = NoCall("init")]
    /\ loop' = [loop EXCEPT ![r] = LoopStart(Dec(2, 10), 0)]
    /\ used' = [used EXCEPT ![r] = {}]
    /\ hist' = [hist EXCEPT ![r] = <<>>]
    /\ cell' = "const"
    /\ UNCHANGED <<alpha_a, a_i>>

\* The ramp cell up to its loop: model.reset().
RampCell(r) ==
    /\ ResetCall(r, Dec(2, 10), Dec(5, 100))
    /\ cell' = "ramp"
    /\ UNCHANGED <<sample_time, alpha_a, a_i>>

\* The test cell up to its loop: sample_time = 0.01, model.reset().
TestCell(r) ==
    /\ sample_time' = TestCellSampleTime
    /\ ResetCall(r, 0, 0)
    /\ cell' = "test"
    /\ UNCHANGED <<alpha_a, a_i>>

\* One iteration of a loop whose inputs are recorded.
TracedStep(r, throttle, alpha) ==
    /\ Len(hist[r]) < MaxPairSteps
    /\ StepCall(r, throttle, alpha)
    /\ hist' = [hist EXCEPT ![r] = Append(@, <<throttle, alpha>>)]
    /\ UNCHANGED <<alpha_a, a_i>>

\* A caller other than the notebook's cells binds the global sample_time.
ExternalAssign(dt) ==
    /\ sample_time' = dt
    /\ UNCHANGED <<veh, cell, loop, last, used, hist, alpha_a, a_i>>

\* The notebook with its one model.
Init == InitFor({1})

Next ==
    \/ \E throttle \in Throttles, alpha \in Alphas : Step(1, throttle, alpha)
    \/ ConstCell(1)
    \/ RampCell(1)
    \/ TestCell(1)

Spec == Init /\ [][Next]_vars

\* Two models in one notebook, stepped one after the other by the cells.
PairInit == InitFor({1, 2})

PairNext ==
    \E r \in {1, 2} :
        \/ \E throttle \in PairThrottles, alpha \in PairAlphas :
               TracedStep(r, throttle, alpha)
        \/ TestCell(r)

SpecPair == PairInit /\ [][PairNext]_vars

\* Two models stepped by a caller that also binds sample_time itself.
ExtNext ==
    \/ \E r \in {1, 2}, throttle \in PairThrottles, alpha \in PairAlphas :
           TracedStep(r, throttle, alpha)
    \/ \E dt \in ExtSampleTimes : ExternalAssign(dt)

SpecExt == PairInit /\ [][ExtNext]_vars

\* throttle = ... in the constant-throttle cell, before its loop starts.
SetThrottle(throttle) ==
    /\ cell = "const"
    /\ last[1].op = "init"
    /\ loop' = [loop EXCEPT ![1] = LoopStart(throttle, 0)]
    /\ UNCHANGED <<veh, sample_time, cell, last, used, hist, alpha_a, a_i>>

\* One iteration of the loop of the constant-throttle cell.
ConstRunStep ==
    /\ cell = "const"
    /\ loop[1].i < MaxRunSteps
    /\ StepCall(1, loop[1].throttle, loop[1].alpha)
    /\ UNCHANGED <<hist, alpha_a, a_i>>

\* The constant-throttle cell run to its end, for each constant throttle.
ConstNext ==
    \/ \E throttle \in RunThrottles : SetThrottle(throttle)
    \/ ConstRunStep

SpecConst == Init /\ [][ConstNext]_vars

\* One iteration of a recorded loop of the runs compared for delay.
DelayStep(r, throttle, alpha) ==
    /\ Len(hist[r]) < MaxDelaySteps
    /\ StepCall(r, throttle, alpha)
    /\ hist' = [hist EXCEPT ![r] = Append(@, <<throttle, alpha>>)]
    /\ UNCHANGED <<alpha_a, a_i>>

\* Two models, each constructed or reset and then stepped with a sequence
\* of inputs.
DelayNext ==
    \E r \in {1, 2} :
        \/ \E in \in DelayInputs : DelayStep(r, in[1], in[2])
        \/ TestCell(r)

SpecDelay == PairInit /\ [][DelayNext]_vars

\* a_i = alpha(x)
AlphaCall(x) ==
    \E out \in {AlphaOutcome(x, alpha_a)} :
        /\ alpha_a' = out.alpha_a
        /\ a_i' = [x |-> x, ret |-> out.ret, err |-> out.err]

\* One iteration of the ramp cell's loop: a_i = alpha(float(model.x)), then
\* model.step(x_throttle_data[i], a_i); an exception ends the loop.
RampRunStep ==
    /\ cell = "ramp"
    /\ loop[1].i < MaxRampSteps
    /\ a_i.err = "none" /\ last[1].err = "none"
    /\ AlphaCall(veh[1].x)
    /\ IF a_i'.err = "none"
       THEN StepCall(1, ThrottleProfile(loop[1].i, sample_time), a_i'.ret)
       ELSE UNCHANGED <<veh, sample_time, cell, loop, last, used>>
    /\ UNCHANGED hist

\* The ramp cell run to its end, after the constant-throttle cell.
RampNext ==
    \/ cell = "const" /\ RampCell(1)
    \/ RampRunStep

SpecRamp == Init /\ [][RampNext]_vars

\* alpha(x) called with any position, in any order.
AlphaNext ==
    \E x \in AlphaPositions :
        /\ AlphaCall(x)
        /\ UNCHANGED <<veh, sample_time, cell, loop, last, used, hist>>

SpecAlpha == Init /\ [][AlphaNext]_vars

(***************************************************************************)
(* Properties of the single model of the notebook (Spec).                  *)
(***************************************************************************)
\* The model's last call was a step that returned.
Returned == last[1].op = "step" /\ last[1].err = "none"

\* The transition is a call of step on the model.
IsStepCall == last'[1].op = "step" /\ loop'[1].i = loop[1].i + 1

\* C1: every step call first integrates the stored derivatives over the
\* model's sample_time - x with the velocity of before the call, v with the
\* acceleration of before the call, w_e with the engine acceleration of
\* before the call - and recomputes a and w_e_dot only afterwards.
C1_IntegrateBeforeDerivatives ==
    [][IsStepCall =>
          /\ veh'[1].x = Add(veh[1].x, Mul(veh[1].v, veh[1].sample_time))
          /\ veh'[1].v = Add(veh[1].v, Mul(veh[1].a, veh[1].sample_time))
          /\ veh'[1].w_e =
                 Add(veh[1].w_e, Mul(veh[1].w_e_dot, veh[1].sample_time))]_vars

\* A step has returned after an earlier one left a nonzero acceleration, so
\* the velocity of before and of after the update differ.
C1_Witness ==
    /\ Returned
    /\ loop[1].i >= 2
    /\ veh[1].v # Dec(5, 1)
    /\ veh[1].x > 0

\* C2: after a step call the derived quantities are the stated functions
\* of the velocity and engine speed the call has just integrated, of the
\* call's throttle and incline, and of the parameters.
C2_DerivedFromIntegratedState ==
    Returned =>
        LET o == veh[1]
            throttle == loop[1].throttle
            alpha == loop[1].alpha
        IN  /\ o.Te = Mul(throttle,
                          Add(Add(o.a_0, Mul(o.a_1, o.w_e)),
                              Mul(Mul(o.a_2, o.w_e), o.w_e)))
            /\ o.Fload = Add(Add(Mul(Mul(o.c_a, o.v), o.v), Mul(o.c_r1, o.v)),
                             Mul(Mul(o.m, o.g), Sin(alpha)))
            /\ o.w_e_dot = Div(Sub(o.Te, Mul(o.GR, Mul(o.r_e, o.Fload))), o.J_e)
            /\ o.s = Div(Sub(Mul(Mul(o.GR, o.w_e), o.r_e), o.v), o.v)
            /\ o.a = Div(Sub(o.Fx, o.Fload), o.m)

\* A step with a throttle and an incline has returned after the velocity
\* and the engine speed have moved from their initial values.
C2_Witness ==
    /\ Returned
    /\ loop[1].throttle # 0
    /\ loop[1].alpha # 0
    /\ veh[1].v # Dec(5, 1)
    /\ veh[1].w_e # Dec(100, 1)

\* C3: the tire force is c * s when the slip ratio is strictly between -1
\* and 1 and F_max otherwise; a slip ratio of exactly 1 or -1 is saturated.
C3_TireForceBranches ==
    Returned =>
        LET o == veh[1]
        IN  IF IsFinite(o.s) /\ -Dec(1, 1) < o.s /\ o.s < Dec(1, 1)
            THEN o.Fx = Mul(o.c, o.s)
            ELSE o.Fx = o.F_max

\* A step has returned with a slip ratio of exactly -1, where c * s and
\* F_max differ.
C3_Witness == Returned /\ veh[1].s = -Dec(1, 1)

\* C4: a slip ratio at or below -1 gives the positive F_max, so the
\* acceleration is (F_max - Fload) / m.
C4_NegativeSlipSaturatesPositive ==
    (Returned /\ veh[1].s # NaN /\ veh[1].s <= -Dec(1, 1)) =>
        /\ veh[1].Fx = veh[1].F_max
        /\ veh[1].Fx > 0
        /\ veh[1].a = Div(Sub(veh[1].F_max, veh[1].Fload), veh[1].m)

\* A step has returned with the wheel turning backwards at a positive
\* velocity, the slip ratio below -1.
C4_Witness ==
    /\ Returned
    /\ veh[1].v > 0
    /\ veh[1].w_w < 0
    /\ veh[1].s < -Dec(1, 1)

\* C5: after reset the state is (x, v, a, w_e, w_e_dot) = (0, 5, 0, 100, 0),
\* the state of a newly constructed model, whatever steps came before.
C5_ResetRestoresInitialState ==
    last[1].op = "reset" =>
        /\ veh[1].x = 0
        /\ veh[1].v = Dec(5, 1)
        /\ veh[1].a = 0
        /\ veh[1].w_e = Dec(100, 1)
        /\ veh[1].w_e_dot = 0
        /\ \A f \in StateFields : veh[1][f] = NewVehicle[f]

\* reset has been called on a model that steps had left with a saturated
\* tire force.
C5_Witness ==
    /\ last[1].op = "reset"
    /\ veh[1].Fx = veh[1].F_max
    /\ veh[1].Te # 0

\* C7: neither step nor reset changes a parameter: a_0, a_1, a_2, GR, r_e,
\* J_e, m, g, c_a, c_r1, c, F_max and sample_time hold the values the
\* constructor gave them, after any sequence of step and reset calls.
C7_ParametersKeepConstructionValues ==
    \A p \in Params : veh[1][p] = NewVehicle[p]

\* A step has returned on a model that was stepped and reset before, with
\* every state field moved from its initial value.
C7_Witness ==
    /\ Returned
    /\ cell = "test"
    /\ \A f \in StateFields : veh[1][f] # NewVehicle[f]

\* C8: the time increment step integrates with is strictly positive and
\* the same in every step call of the model's lifetime, through resets and
\* across the driver cells run on the model.
C8_OneProperIncrement ==
    /\ \A d \in used[1] : IsFinite(d) /\ d > 0
    /\ \A d1, d2 \in used[1] : d1 = d2
    /\ last[1].op = "step" => last[1].dt \in used[1]

\* The model has been stepped again after a later cell bound sample_time
\* anew and reset it.
C8_Witness ==
    /\ cell = "test"
    /\ last[1].op = "step"
    /\ loop[1].i >= 2
    /\ used[1] # {}

\* C10, as amended: no step call fails or stops half way.  Every call
\* returns having assigned all five state fields, and they are finite; when
\* the integrated velocity is zero the slip ratio alone is non-finite, the
\* tire force is F_max, and the acceleration is (F_max - Fload) / m.
C10_StepNeverFailsNorPoisonsState ==
    last[1].op = "step" =>
        /\ last[1].err = "none"
        /\ StateFields \subseteq last[1].assigned
        /\ \A f \in StateFields : IsFinite(veh[1][f])
        /\ veh[1].v = 0 =>
               /\ ~IsFinite(veh[1].s)
               /\ veh[1].Fx = veh[1].F_max
               /\ veh[1].a = Div(Sub(veh[1].F_max, veh[1].Fload), veh[1].m)

\* A step has returned with the integrated velocity exactly zero.
C10_Witness == Returned /\ veh[1].v = 0 /\ loop[1].i >= 2

\* C10 as stated: a step call at zero velocity raises no error and leaves a
\* non-finite value in a state field.
C10_ZeroVelocityLeavesNonFiniteState ==
    (last[1].op = "step" /\ veh[1].v = 0) =>
        /\ last[1].err = "none"
        /\ \E f \in StateFields : ~IsFinite(veh[1][f])

(***************************************************************************)
(* Properties of two models (SpecPair, SpecExt).                           *)
(***************************************************************************)
\* The five state fields of instance r.
StateOf(r) == [f \in StateFields |-> veh[r][f]]

\* C9: two independent models with the same parameters that have received
\* the same sequence of (throttle, alpha) have the same five state fields.
C9_Determinism ==
    hist[1] = hist[2] => StateOf(1) = StateOf(2)

\* Both models have received the same two inputs, different from each
\* other, one of them after the test cell reset it.
C9_Witness ==
    /\ Len(hist[1]) >= 2
    /\ hist[1] = hist[2]
    /\ hist[1][1] # hist[1][2]
    /\ last[1].op = "step" /\ last[2].op = "step"
    /\ cell = "test"

\* C6: step integrates with the model's own sample_time and reads no
\* variable outside the model, so two runs from the same state with the
\* same inputs that differ only in the outer sample_time end in the same
\* state after every step.
C6_StepIgnoresOuterSampleTime ==
    /\ \A r \in DOMAIN veh : used[r] \subseteq {veh[r].sample_time}
    /\ \A r1, r2 \in DOMAIN veh :
           hist[r1] = hist[r2] => StateOf(r1) = StateOf(r2)

\* Two models have received the same inputs while the outer sample_time
\* differed between their calls.
C6_Witness ==
    /\ hist[1] = hist[2]
    /\ Len(hist[1]) >= 1
    /\ used[1] # used[2]

(***************************************************************************)
(* Properties of the inputs of step (Spec).                                *)
(***************************************************************************)
\* C11: step takes any throttle, below 0 and above 1 included, and any
\* incline as given: a call that leaves a nonzero velocity has not ended in
\* an error, and its engine torque is the throttle itself, unclamped, times
\* a_0 + a_1 * w_e + a_2 * w_e * w_e.
C11_ThrottleTakenAsGiven ==
    (last[1].op = "step" /\ veh[1].v # 0) =>
        /\ last[1].err = "none"
        /\ veh[1].Te =
               Mul(loop[1].throttle,
                   Add(Add(veh[1].a_0, Mul(veh[1].a_1, veh[1].w_e)),
                       Mul(Mul(veh[1].a_2, veh[1].w_e), veh[1].w_e)))
        /\ loop[1].throttle < 0 => veh[1].Te < 0
        /\ loop[1].throttle > Dec(1, 1) =>
               veh[1].Te > Add(Add(veh[1].a_0, Mul(veh[1].a_1, veh[1].w_e)),
                               Mul(Mul(veh[1].a_2, veh[1].w_e), veh[1].w_e))

\* A step with a throttle below zero on a steep incline has returned with a
\* negative engine torque.
C11_Witness ==
    /\ Returned
    /\ loop[1].throttle < 0
    /\ loop[1].alpha > Dec(1, 1)
    /\ veh[1].v # 0
    /\ veh[1].Te < 0

(***************************************************************************)
(* Properties of the runs of the constant-throttle cell (SpecConst).       *)
(***************************************************************************)
\* The model is in a run of the constant-throttle cell on the flat road.
InConstRun == cell = "const" /\ loop[1].alpha = 0 /\ sample_time = Dec(1, 100)

\* C12: in the reference run - default parameters, sample_time 0.01,
\* throttle 0.2, incline 0, 10,000 steps from the initial state - every
\* step leaves the velocity strictly positive and the position strictly
\* above the position of before the step.
C12_ReferenceRunMovesForward ==
    [][(InConstRun /\ loop[1].throttle = Dec(2, 10) /\ IsStepCall) =>
          /\ last'[1].err = "none"
          /\ veh'[1].v > 0 /\ IsFinite(veh'[1].v)
          /\ veh'[1].x > veh[1].x /\ IsFinite(veh'[1].x)]_vars

\* The reference run has reached the end of its loop.
C12_Witness ==
    /\ InConstRun /\ Returned
    /\ loop[1].throttle = Dec(2, 10)
    /\ loop[1].i >= MaxRunSteps
    /\ veh[1].v > Dec(24, 1)
    /\ veh[1].x > Dec(2000, 1)

InRampRun == cell = "ramp" /\ Returned /\ a_i.err = "none"

\* C14: in the ramp cell's run - reset, then 2,000 steps with alpha(x) at
\* the current position and the throttle array - no step lowers the
\* position, and the position after 1,500 steps, where the throttle begins
\* to fall, is on the second ramp: above RampEnd1 and at most RampEnd2.
C14_RampRunCrossesSecondRamp ==
    /\ []((cell = "ramp" /\ loop[1].i = 1500) =>
              /\ InRampRun
              /\ veh[1].x > RampEnd1
              /\ veh[1].x <= RampEnd2)
    /\ [][(cell = "ramp" /\ IsStepCall) =>
              /\ last'[1].err = "none"
              /\ IsFinite(veh'[1].x)
              /\ veh'[1].x >= veh[1].x]_vars

\* The run has reached iteration 1500 on the second ramp and gone on to
\* the flat road behind it.
C14_Witness ==
    /\ InRampRun
    /\ loop[1].i > 1500
    /\ veh[1].x > RampEnd2
    /\ alpha_a = 0

\* C15: for a position x >= 0 alpha(x) returns RampAngle1 up to RampEnd1,
\* RampAngle2 above RampEnd1 up to RampEnd2, and 0 above RampEnd2; each
\* breakpoint belongs to the segment that ends at it.
C15_InclineProfileSegments ==
    (a_i.x # Unset /\ a_i.x >= 0) =>
        /\ a_i.err = "none"
        /\ a_i.ret = IF a_i.x <= RampEnd1 THEN RampAngle1
                     ELSE IF a_i.x <= RampEnd2 THEN RampAngle2
                     ELSE 0
        /\ RampEnd2 = RampEnd1 + RampLength2

\* alpha has been called at the first breakpoint and returned the angle of
\* the first ramp.
C15_Witness == a_i.x = RampEnd1 /\ a_i.ret = RampAngle1 /\ a_i.err = "none"

\* C16: the throttle of iteration i, for i in 0..1999 and t = i * 0.01 s,
\* lies in [0, 1]; it is 0.2 at i = 0, 0.2 + 0.06 * t up to t = 5 s where it
\* reaches 0.5, 0.5 up to t = 15 s, and 0.5 - 0.1 * (t - 15) after, so it
\* moves by no more than 0.001 from one iteration to the next.
C16_ThrottleTrapezoid ==
    (cell = "ramp" /\ last[1].op = "step" /\ loop[1].i <= 2000) =>
        LET i == loop[1].i - 1
            th == loop[1].throttle
        IN  /\ th >= 0 /\ th <= Dec(1, 1)
            /\ i = 0 => th = Dec(2, 10)
            /\ i <= 500 => th = Dec(2, 10) + 6 * i
            /\ i = 500 => th = Dec(5, 10)
            /\ (i > 500 /\ i <= 1500) => th = Dec(5, 10)
            /\ i > 1500 => th = Dec(5, 10) - 10 * (i - 1500)
            /\ i > 1500 => th > 0

\* The run has passed t = 15 s and stepped with the first throttle of the
\* falling edge, 0.499.
C16_Witness ==
    /\ InRampRun
    /\ loop[1].i = 1502
    /\ loop[1].throttle = Dec(499, 1000)

\* C18: alpha(x) is a pure function of x, x < 0 included: the last call
\* did not fail, and it returned what it returns from any value an earlier
\* call can have left in alpha_a, and from none.
C18_InclineProfileIsPure ==
    a_i.x # Unset =>
        /\ a_i.err = "none"
        /\ \A g \in {Unset, RampAngle1, RampAngle2, 0} :
               /\ AlphaOutcome(a_i.x, g).err = "none"
               /\ AlphaOutcome(a_i.x, g).ret = a_i.ret

\* alpha has been called with a negative position after a call on the
\* second ramp, and returned the angle of the second ramp.
C18_Witness ==
    /\ a_i.x < 0
    /\ a_i.err = "none"
    /\ a_i.ret = RampAngle2

(***************************************************************************)
(* Properties of two models: ownership of state (SpecPair), reset against  *)
(* construction (SpecPair), the delay of inputs (SpecDelay).               *)
(***************************************************************************)
\* The transition is no call on instance r.
NotCalled(r) == hist'[r] = hist[r] /\ last'[r] = last[r] /\ loop'[r] = loop[r]

\* The transition is a call of step on instance r.
IsStepCallOn(r) == last'[r].op = "step" /\ loop'[r].i = loop[r].i + 1

\* The five state fields of the object o.
FieldsOf(o) == [f \in StateFields |-> o[f]]

\* A model constructed and stepped with the inputs of h, no other model
\* existing.
RECURSIVE RunAlone(_, _)
RunAlone(h, dt) ==
    IF h = <<>>
    THEN NewVehicle
    ELSE StepObj(RunAlone(SubSeq(h, 1, Len(h) - 1), dt),
                 h[Len(h)][1], h[Len(h)][2], dt).obj

\* C17: each model owns its state: a step or reset call on one model
\* leaves the five state fields, the parameters and every other attribute
\* of the other model as they were, so the other model's trajectory is its
\* own calls' alone: the state fields it has are those of a model run alone
\* with the same inputs.
C17_InstancesOwnTheirState ==
    /\ [](\A r \in {1, 2} :
              /\ FieldsOf(veh[r]) = FieldsOf(RunAlone(hist[r], sample_time))
              /\ \A p \in Params : veh[r][p] = NewVehicle[p])
    /\ [][\A r \in {1, 2} : NotCalled(r) => veh'[r] = veh[r]]_vars

\* The first model has been stepped twice and reset while the second,
\* stepped once, kept the state of its one step.
C17_Witness ==
    /\ last[1].op = "reset"
    /\ veh[1].Fx # Unset
    /\ Len(hist[2]) = 1
    /\ veh[2].x = Dec(5, 100)
    /\ veh[2].Fx # veh[1].Fx

\* A newly constructed model given the five state fields of o.
FreshWith(o) ==
    [NewVehicle EXCEPT !.x = o.x, !.v = o.v, !.a = o.a, !.w_e = o.w_e,
                       !.w_e_dot = o.w_e_dot, !.np = o.np]

\* C19: a model stepped and then reset is a newly constructed model to
\* every later step: reset leaves the state fields of construction, a
\* second reset changes nothing, and a step computes its five state fields
\* from the five state fields and its inputs alone, reading nothing that
\* an earlier step left in Te, Fload, w_w, s or Fx.
C19_ResetIsAsGoodAsNew ==
    /\ [](\A r \in {1, 2} :
              last[r].op = "reset" =>
                  /\ FieldsOf(veh[r]) = FieldsOf(NewVehicle)
                  /\ ResetObj(veh[r]) = veh[r])
    /\ [][\A r \in {1, 2} :
              IsStepCallOn(r) =>
                  FieldsOf(veh'[r]) =
                      FieldsOf(StepObj(FreshWith(veh[r]), loop'[r].throttle,
                                       loop'[r].alpha, sample_time).obj)]_vars

\* The first model has been reset by the test cell and stepped twice since,
\* the second model never having been reset.
C19_Witness ==
    /\ cell = "test"
    /\ last[2].op # "reset" /\ loop[2].throttle # 0
    /\ last[1].op = "step"
    /\ Len(hist[1]) >= 2
    /\ veh[1].v # Dec(5, 1)

\* The first n entries of the sequence h.
Prefix(h, n) == SubSeq(h, 1, n)

\* C20: the inputs of a step act with a delay.  The first step after
\* construction or reset leaves v = 5 and w_e = 100 and sets x to
\* 5 * sample_time, whatever its inputs; two runs that agree on all inputs
\* but the last have the same v and w_e, and two runs that agree on all but
\* the last two have the same x.
C20_InputsActWithDelay ==
    /\ \A r \in {1, 2} :
           (Len(hist[r]) = 1 /\ last[r].op = "step") =>
               /\ veh[r].v = Dec(5, 1)
               /\ veh[r].w_e = Dec(100, 1)
               /\ veh[r].x = Mul(Dec(5, 1), veh[r].sample_time)
    /\ (Len(hist[1]) = Len(hist[2]) /\ Len(hist[1]) >= 1
            /\ Prefix(hist[1], Len(hist[1]) - 1) = Prefix(hist[2], Len(hist[2]) - 1)) =>
           /\ veh[1].v = veh[2].v
           /\ veh[1].w_e = veh[2].w_e
    /\ (Len(hist[1]) = Len(hist[2]) /\ Len(hist[1]) >= 2
            /\ Prefix(hist[1], Len(hist[1]) - 2) = Prefix(hist[2], Len(hist[2]) - 2)) =>
           veh[1].x = veh[2].x

\* Two runs of three steps have had the same first input and different
\* second and third inputs: their velocities differ, their positions do not.
C20_Witness ==
    /\ Len(hist[1]) = 3 /\ Len(hist[2]) = 3
    /\ hist[1][1] = hist[2][1]
    /\ hist[1][2] # hist[2][2]
    /\ hist[1][3] # hist[2][3]
    /\ veh[1].v # veh[2].v
    /\ veh[1].x = veh[2].x
====
